---------------------------- MODULE Spec2Model ----------------------------
(***************************************************************************)
(* exif_batch_set: batch rewrite of the EXIF date tags of the JPEG files   *)
(* of a folder, with an optional .bak copy made before each rewrite.       *)
(*                                                                         *)
(* The model follows src/exif_batch_set.cpp.  A string is a sequence of    *)
(* character codes, a path is <<directory, stem, extensions>>, a file's    *)
(* content is a sequence of blocks and the file system is a function from  *)
(* the paths of the regular files that exist to their content.             *)
(***************************************************************************)
EXTENDS Integers, Sequences, FiniteSets, TLC

VARIABLES
    fs,          \* regular files on disk: path -> content
    pc,          \* "idle" | "start" | "iterating" | "exited" ("validator": see CheckProbe)
    cmdline,     \* argv[1..] of the invocation being started, <<>> once parsed
    dt,          \* main's local dt (argv[2])
    recursive,   \* main's local recursive
    dry_run,     \* main's local dry_run
    make_backup, \* main's local make_backup
    pending,     \* entries the directory iterator has still to yield
    total,       \* main's local total
    ok,          \* main's local ok
    skipped,     \* main's local skipped
    exitCode,    \* main's return value, -1 while it has not returned
    stderr,      \* the validation message of this run, "" when none
    log,         \* per file, the outcome lines printed for it in this run
    enumerated,  \* entries the iterator has yielded in this run
    codecCalls,  \* files on which the metadata codec was invoked in this run
    backedUp,    \* files whose CopyFileBinary returned true in this run
    fs0,         \* the file system when this run started
    madeNow,     \* files whose backup path this run created
    madeBefore,  \* files whose backup path an earlier run created
    runs,        \* invocations so far
    faults,      \* I/O faults the environment has injected so far
    probe,       \* the string handed to IsValidExifDateTime on its own
    verdict      \* its answer: "unset" | "accept" | "reject"

vars == <<fs, pc, cmdline, dt, recursive, dry_run, make_backup, pending, total,
          ok, skipped, exitCode, stderr, log, enumerated, codecCalls, backedUp,
          fs0, madeNow, madeBefore, runs, faults, probe, verdict>>

(***************************************************************************)
(* Bounds of the model.                                                    *)
(***************************************************************************)
\* invocations of the program in one behaviour
MaxRuns == 2
\* option arguments after the two positional ones, in CommandLines
MaxOpts == 2
\* I/O faults (a failed open, read or write) injected in one behaviour
MaxFaults == 1
\* the validator is probed with strings of 19 - MaxLenDelta .. 19 + MaxLenDelta characters
MaxLenDelta == 1

(***************************************************************************)
(* Strings.                                                                *)
(***************************************************************************)
\* "2026:02:25 18:30:00"
StampA == <<50,48,50,54,58,48,50,58,50,53,32,49,56,58,51,48,58,48,48>>
\* "2026:13:25 18:30:00" (month 13)
StampMonth13 == <<50,48,50,54,58,49,51,58,50,53,32,49,56,58,51,48,58,48,48>>
\* "2026-02-25 18:30:00" ('-' where ':' belongs)
StampDash == <<50,48,50,54,45,48,50,58,50,53,32,49,56,58,51,48,58,48,48>>
\* "2026:02:25 18:30:0" (18 characters)
StampShort == <<50,48,50,54,58,48,50,58,50,53,32,49,56,58,51,48,58,48>>

\* the lambda is_digit: c >= '0' && c <= '9'
is_digit_OffByOne(c) == c > 48 /\ c <= 57
is_digit(c) == c >= 48 /\ c <= 57

\* 0-based indices of the digit positions, as listed in the for loop
DigitIndices == {0, 1, 2, 3, 5, 6, 8, 9, 11, 12, 14, 15, 17, 18}

IsValidExifDateTime(s) ==
    IF Len(s) # 19 THEN FALSE
    ELSE IF \E i \in DigitIndices : ~is_digit(s[i + 1]) THEN FALSE
    ELSE s[4 + 1] = 58 /\ s[7 + 1] = 58 /\ s[10 + 1] = 32
         /\ s[13 + 1] = 58 /\ s[16 + 1] = 58

\* std::tolower in the "C" locale, character by character
ToLower(s) == [i \in 1..Len(s) |-> IF s[i] >= 65 /\ s[i] <= 90 THEN s[i] + 32 ELSE s[i]]

(***************************************************************************)
(* The validator on its own: a probe string is drawn, then checked.        *)
(***************************************************************************)
\* '/', '0', '1', '3', '9', ':', ' ', 'A': the digits' neighbours included
ProbeChars == {47, 48, 49, 51, 57, 58, 32, 65}

ProbeLengths == (19 - MaxLenDelta)..(19 + MaxLenDelta)

\* StampA cut or padded with '0' to n characters
Resize(n) == [i \in 1..n |-> IF i <= 19 THEN StampA[i] ELSE 48]

\* every string that differs from a resized StampA in at most two places
Probes ==
    { [k \in 1..n |-> IF k = i THEN c ELSE IF k = j THEN d ELSE Resize(n)[k]] :
        n \in ProbeLengths, i \in 1..(19 + MaxLenDelta), j \in 1..(19 + MaxLenDelta),
        c \in ProbeChars, d \in ProbeChars }

(***************************************************************************)
(* Paths and the type filter.                                              *)
(***************************************************************************)
\* "jpg", "JPEG", "txt", "bak"
ExtJpg == <<106, 112, 103>>
ExtUpperJpeg == <<74, 80, 69, 71>>
ExtTxt == <<116, 120, 116>>
ExtBak == <<98, 97, 107>>
\* ".jpg", ".jpeg"
DotJpg == <<46, 106, 112, 103>>
DotJpeg == <<46, 106, 112, 101, 103>>

\* fs::path::extension(): the last dot of the file name and what follows it
Extension(p) == IF p[3] = <<>> THEN <<>> ELSE <<46>> \o p[3][Len(p[3])]

IsJpegPath(p) ==
    LET ext == ToLower(Extension(p)) IN ext = DotJpg \/ ext = DotJpeg

\* backup_path = file; backup_path += ".bak"
BackupPath(file) == <<file[1], file[2], Append(file[3], ExtBak)>>

\* the files and the directory of the tree under "root"
FileA == <<"root", "a", <<ExtJpg>>>>
FileB == <<"root", "b", <<ExtUpperJpeg>>>>
FileNotes == <<"root", "notes", <<ExtTxt>>>>
FileC == <<"sub.jpg", "c", <<ExtJpg>>>>
\* a directory of root whose name ends in .jpg
SubDir == <<"root", "sub", <<ExtJpg>>>>

\* the folder arguments tried: the tree's root, a path that does not exist,
\* the path of a regular file
FolderArgs == {"root", "nowhere", "photo.jpg"}
\* fs::exists(folder, ec)
FolderExists(folder) == folder \in {"root", "photo.jpg"}
\* fs::is_directory(folder, ec)
FolderIsDirectory(folder) == folder = "root"

(***************************************************************************)
(* File content and the metadata codec.                                    *)
(***************************************************************************)
\* an image: the metadata block (marker, then the date tags' value) and the pixels
Image(stamp, pixels) == << <<255, 225>> \o stamp, pixels >>
\* a file the codec cannot read
Junk == << <<0>> >>
\* what is left of content c when a write stops early
Truncations(c) == {SubSeq(c, 1, k) : k \in 0..(Len(c) - 1)}

Put(files, p, c) == [q \in DOMAIN files \cup {p} |-> IF q = p THEN c ELSE files[q]]

\* readMetadata succeeds on a container with a metadata block
Readable(c) == Len(c) = 2 /\ Len(c[1]) >= 2 /\ c[1][1] = 255 /\ c[1][2] = 225

\* DateTimeOriginal, DateTimeDigitized and DateTime all set to d
SetDates(c, d) == << <<255, 225>> \o d, c[2] >>

\* ImageFactory::open .. writeMetadata on `file`: the outcomes, each the value
\* returned to UpdateExifInPlace's caller and the files left on disk.  A
\* container the codec cannot read fails before any write; a write can fail
\* and leave the file as it was or cut short.
Codec(files, file, d) ==
    IF ~Readable(files[file])
    THEN {[ok |-> FALSE, faults |-> 0, files |-> files]}
    ELSE {[ok |-> TRUE, faults |-> 0,
           files |-> [files EXCEPT ![file] = SetDates(files[file], d)]],
          [ok |-> FALSE, faults |-> 1, files |-> files]}
         \cup {[ok |-> FALSE, faults |-> 1, files |-> [files EXCEPT ![file] = t]] :
                 t \in Truncations(files[file])}

(***************************************************************************)
(* CopyFileBinary: its outcomes.                                           *)
(*  - the source cannot be opened: dst is not touched;                     *)
(*  - the destination cannot be opened: dst is not created;                *)
(*  - out << in.rdbuf() inserts nothing (an empty source): failbit is set, *)
(*    the created dst stays empty and the copy is reported failed;         *)
(*  - a write fails: dst holds a prefix, the copy is reported failed;      *)
(*  - all is copied: true;                                                 *)
(*  - a read of the source fails after some characters were copied, or the *)
(*    stream's buffered tail cannot be written when the ofstream is        *)
(*    destroyed: out.good() was true when tested, dst holds a prefix and   *)
(*    the copy is reported as done.                                        *)
(***************************************************************************)
CopyResult(r, e, n, files) == [ok |-> r, err |-> e, faults |-> n, files |-> files]

CopyFileBinary(files, src, dst) ==
    LET data == files[src] IN
    {CopyResult(FALSE, "failed to open source for backup", 1, files),
     CopyResult(FALSE, "failed to open destination for backup", 1, files)}
    \cup (IF data = <<>>
          THEN {CopyResult(FALSE, "failed while writing backup", 0, Put(files, dst, <<>>))}
          ELSE {CopyResult(TRUE, "", 0, Put(files, dst, data))})
    \cup {CopyResult(FALSE, "failed while writing backup", 1, Put(files, dst, t)) :
            t \in Truncations(data)}
    \cup {CopyResult(TRUE, "", 1, Put(files, dst, t)) : t \in Truncations(data)}

(***************************************************************************)
(* UpdateExifInPlace: its outcomes.  ret is the value returned, state and  *)
(* cause are the line printed, copied says that CopyFileBinary returned    *)
(* true and codec that the codec was invoked.                              *)
(***************************************************************************)
Outcome(r, st, cause, files, c, m, n) ==
    [ret |-> r, state |-> st, cause |-> cause, files |-> files, copied |-> c,
     codec |-> m, faults |-> n]

DryRunOutcome(files) == Outcome(TRUE, "DryRunReported", "", files, FALSE, FALSE, 0)
BackupExists(files) ==
    Outcome(FALSE, "BackupFailed", "backup already exists", files, FALSE, FALSE, 0)
BackupFailed(c) == Outcome(FALSE, "BackupFailed", "backup failed", c.files, FALSE, FALSE, c.faults)

\* lines 91-117: the codec on `file`, every failure caught and reported
Mutate(files, file, d, copied, n) ==
    {Outcome(r.ok, IF r.ok THEN "Succeeded" ELSE "MutateFailed",
             IF r.ok THEN "" ELSE "codec", r.files, copied, TRUE, n + r.faults) :
        r \in Codec(files, file, d)}

UpdateExifInPlace_NoExistsCheck(files, file, d, dry, backup) ==
    IF dry THEN {DryRunOutcome(files)}
    ELSE IF ~backup THEN Mutate(files, file, d, FALSE, 0)
    ELSE UNION {IF ~c.ok THEN {BackupFailed(c)} ELSE Mutate(c.files, file, d, TRUE, c.faults) :
                    c \in CopyFileBinary(files, file, BackupPath(file))}

UpdateExifInPlace_ExistsOnlyWarns(files, file, d, dry, backup) ==
    IF dry THEN {DryRunOutcome(files)}
    ELSE IF ~backup \/ BackupPath(file) \in DOMAIN files THEN Mutate(files, file, d, FALSE, 0)
    ELSE UNION {IF ~c.ok THEN {BackupFailed(c)} ELSE Mutate(c.files, file, d, TRUE, c.faults) :
                    c \in CopyFileBinary(files, file, BackupPath(file))}

UpdateExifInPlace_DryRunBacksUp(files, file, d, dry, backup) ==
    IF ~backup THEN (IF dry THEN {DryRunOutcome(files)} ELSE Mutate(files, file, d, FALSE, 0))
    ELSE IF BackupPath(file) \in DOMAIN files THEN {BackupExists(files)}
    ELSE UNION {IF ~c.ok THEN {BackupFailed(c)}
                ELSE IF dry THEN {DryRunOutcome(c.files)}
                ELSE Mutate(c.files, file, d, TRUE, c.faults) :
                    c \in CopyFileBinary(files, file, BackupPath(file))}

UpdateExifInPlace(files, file, d, dry, backup) ==
    IF dry THEN {DryRunOutcome(files)}
    ELSE IF ~backup THEN Mutate(files, file, d, FALSE, 0)
    ELSE IF BackupPath(file) \in DOMAIN files THEN {BackupExists(files)}
    ELSE UNION {IF ~c.ok THEN {BackupFailed(c)} ELSE Mutate(c.files, file, d, TRUE, c.faults) :
                    c \in CopyFileBinary(files, file, BackupPath(file))}

(***************************************************************************)
(* main: argument parsing and validation.                                  *)
(***************************************************************************)
OptionTokens == {"--recursive", "--dry-run", "--no-backup", "--bogus"}
StampArgs == {StampA, StampMonth13, StampDash, StampShort}

RECURSIVE OptionLists(_)
OptionLists(n) ==
    IF n = 0 THEN {<<>>}
    ELSE OptionLists(n - 1)
         \cup {Append(o, t) : o \in {x \in OptionLists(n - 1) : Len(x) = n - 1},
                              t \in OptionTokens}

\* argv[1..]: nothing, a folder alone, or a folder, a timestamp and options
CommandLines ==
    {<<>>} \cup {<<f>> : f \in FolderArgs}
    \cup {<<f, d>> \o o : f \in FolderArgs, d \in StampArgs, o \in OptionLists(MaxOpts)}

\* the command lines of the runs: every combination of the three flags on the
\* tree's root, and one command line per validation failure
FlagLists ==
    {r \o y \o b : r \in {<<>>, <<"--recursive">>}, y \in {<<>>, <<"--dry-run">>},
                   b \in {<<>>, <<"--no-backup">>}}
RunLines ==
    {<<"root", StampA>> \o o : o \in FlagLists}
    \cup {<<"root">>, <<"root", StampA, "--dry-run", "--bogus">>,
          <<"root", StampDash, "--dry-run">>, <<"nowhere", StampA, "--no-backup">>}

\* the for loop over argv[3..]: the flags set so far, and whether an unknown
\* option ended it
RECURSIVE ParseOptions(_, _, _)
ParseOptions(args, i, st) ==
    IF i > Len(args) THEN st
    ELSE IF args[i] = "--recursive"
         THEN ParseOptions(args, i + 1, [st EXCEPT !.recursive = TRUE])
    ELSE IF args[i] = "--dry-run"
         THEN ParseOptions(args, i + 1, [st EXCEPT !.dry_run = TRUE])
    ELSE IF args[i] = "--no-backup"
         THEN ParseOptions(args, i + 1, [st EXCEPT !.make_backup = FALSE])
    ELSE [st EXCEPT !.unknown = TRUE]

DefaultFlags == [recursive |-> FALSE, dry_run |-> FALSE, make_backup |-> TRUE,
                 unknown |-> FALSE]

\* main up to the loop: "" when the run goes on, else the message of the
\* check that ended it with status 2
Validate_AcceptsAnyFolder(args) ==
    IF Len(args) + 1 < 3 THEN "Usage"
    ELSE IF ParseOptions(args, 3, DefaultFlags).unknown THEN "Unknown option"
    ELSE IF ~IsValidExifDateTime(args[2]) THEN "Invalid datetime"
    ELSE IF ~FolderExists(args[1]) THEN "Folder does not exist or is not a directory"
    ELSE ""
Validate(args) ==
    IF Len(args) + 1 < 3 THEN "Usage"
    ELSE IF ParseOptions(args, 3, DefaultFlags).unknown THEN "Unknown option"
    ELSE IF ~IsValidExifDateTime(args[2]) THEN "Invalid datetime"
    ELSE IF ~FolderExists(args[1]) \/ ~FolderIsDirectory(args[1])
         THEN "Folder does not exist or is not a directory"
    ELSE ""

(***************************************************************************)
(* main: the traversal.                                                    *)
(***************************************************************************)
\* what the iterator constructed on the folder will yield: the entries of the
\* folder, and with recursive_directory_iterator those of its subdirectory
DirEntries(files, rec) ==
    {p \in DOMAIN files : p[1] = "root"} \cup {SubDir}
    \cup (IF rec THEN {p \in DOMAIN files : p[1] = "sub.jpg"} ELSE {})

\* e.is_regular_file()
IsRegularFile(files, e) == e \in DOMAIN files

\* the range-for loops: a per-file failure leaves the rest of the entries to come
NextPending_StopOnFailure(pend, e, ret) == IF ret THEN pend \ {e} ELSE {}
NextPending(pend, e, ret) == pend \ {e}

\* process_entry's counting: ++total, and ++ok when UpdateExifInPlace returned true
CountOk(n, ret) == IF ret THEN n + 1 ELSE n

\* return (ok == total ? 0 : 1)
ExitStatus_AnySuccess(okN, totalN) == IF okN > 0 \/ totalN = 0 THEN 0 ELSE 1
ExitStatus(okN, totalN) == IF okN = totalN THEN 0 ELSE 1

(***************************************************************************)
(* The trees the runs start from.                                          *)
(***************************************************************************)
ImageA == Image(<<>>, <<1>>)
ImageB == Image(<<>>, <<2>>)
ImageC == Image(<<>>, <<3>>)
\* an earlier copy of a.jpg, kept as a.jpg.bak
OldBackup == Image(<<>>, <<9>>)
NoText == << <<110>> >>

\* notes.txt alone, or a.jpg and notes.txt and at most one more .jpg: b.JPEG
\* beside them (an image, or an empty file) or c.jpg in the subdirectory (an
\* image, or a file the codec cannot read); each with or without an earlier
\* a.jpg.bak
BaseTree == [p \in {FileA, FileNotes} |-> IF p = FileA THEN ImageA ELSE NoText]

InitialTrees ==
    {IF hasBak THEN Put(t, BackupPath(FileA), OldBackup) ELSE t :
        hasBak \in BOOLEAN,
        t \in {[p \in {FileNotes} |-> NoText],
               BaseTree, Put(BaseTree, FileB, ImageB), Put(BaseTree, FileB, <<>>),
               Put(BaseTree, FileC, ImageC), Put(BaseTree, FileC, Junk)}}

NoLog == [p \in {} |-> <<>>]

Init ==
    /\ fs \in InitialTrees
    /\ pc = "idle"
    /\ cmdline = <<>>
    /\ dt = <<>>
    /\ recursive = FALSE
    /\ dry_run = FALSE
    /\ make_backup = TRUE
    /\ pending = {}
    /\ total = 0
    /\ ok = 0
    /\ skipped = 0
    /\ exitCode = -1
    /\ stderr = ""
    /\ log = NoLog
    /\ enumerated = {}
    /\ codecCalls = {}
    /\ backedUp = {}
    /\ fs0 = fs
    /\ madeNow = {}
    /\ madeBefore = {}
    /\ runs = 0
    /\ faults = 0
    /\ probe = <<>>
    /\ verdict = "unset"

\* the program is started with some command line
Invoke ==
    /\ pc \in {"idle", "exited"}
    /\ runs < MaxRuns
    /\ runs' = runs + 1
    /\ pc' = "start"
    /\ cmdline' \in RunLines
    /\ dt' = <<>>
    /\ recursive' = FALSE
    /\ dry_run' = FALSE
    /\ make_backup' = TRUE
    /\ pending' = {}
    /\ total' = 0
    /\ ok' = 0
    /\ skipped' = 0
    /\ exitCode' = -1
    /\ stderr' = ""
    /\ log' = NoLog
    /\ enumerated' = {}
    /\ codecCalls' = {}
    /\ backedUp' = {}
    /\ fs0' = fs
    /\ madeBefore' = madeBefore \cup madeNow
    /\ madeNow' = {}
    /\ UNCHANGED <<fs, faults, probe, verdict>>

\* main, lines 120-161 and the construction of the iterator
MainStart ==
    /\ pc = "start"
    /\ LET msg == Validate(cmdline)
           flags == IF Len(cmdline) >= 2 THEN ParseOptions(cmdline, 3, DefaultFlags)
                    ELSE DefaultFlags
       IN /\ stderr' = msg
          /\ recursive' = flags.recursive
          /\ dry_run' = flags.dry_run
          /\ make_backup' = flags.make_backup
          /\ IF msg # ""
             THEN /\ pc' = "exited"
                  /\ exitCode' = 2
                  /\ UNCHANGED <<dt, pending>>
             ELSE /\ pc' = "iterating"
                  /\ dt' = cmdline[2]
                  /\ pending' = DirEntries(fs, flags.recursive)
                  /\ UNCHANGED exitCode
    /\ cmdline' = <<>>
    /\ UNCHANGED <<fs, total, ok, skipped, log, enumerated, codecCalls, backedUp,
                   fs0, madeNow, madeBefore, runs, faults, probe, verdict>>

\* one iteration of the loop: process_entry on the entry the iterator yields.
\* A file the iteration creates in the directory may or may not be yielded later.
ProcessEntry ==
    /\ pc = "iterating"
    /\ \E e \in pending :
        /\ enumerated' = enumerated \cup {e}
        /\ IF ~IsRegularFile(fs, e)
           THEN /\ pending' = pending \ {e}
                /\ UNCHANGED <<fs, total, ok, skipped, log, codecCalls, backedUp, madeNow,
                               faults>>
           ELSE IF ~IsJpegPath(e)
           THEN /\ skipped' = skipped + 1
                /\ pending' = pending \ {e}
                /\ UNCHANGED <<fs, total, ok, log, codecCalls, backedUp, madeNow, faults>>
           ELSE \E r \in UpdateExifInPlace(fs, e, dt, dry_run, make_backup) :
                /\ faults + r.faults <= MaxFaults
                /\ faults' = faults + r.faults
                /\ total' = total + 1
                /\ ok' = CountOk(ok, r.ret)
                /\ fs' = r.files
                /\ log' = Put(log, e, (IF e \in DOMAIN log THEN log[e] ELSE <<>>)
                                        \o <<[state |-> r.state, cause |-> r.cause]>>)
                /\ codecCalls' = IF r.codec THEN codecCalls \cup {e} ELSE codecCalls
                /\ backedUp' = IF r.copied THEN backedUp \cup {e} ELSE backedUp
                /\ madeNow' = IF BackupPath(e) \in DOMAIN r.files \ DOMAIN fs
                              THEN madeNow \cup {e} ELSE madeNow
                /\ \E seen \in SUBSET (DOMAIN r.files \ DOMAIN fs) :
                       pending' = NextPending(pending, e, r.ret) \cup seen
                /\ UNCHANGED skipped
    /\ UNCHANGED <<pc, cmdline, dt, recursive, dry_run, make_backup, exitCode, stderr,
                   fs0, madeBefore, runs, probe, verdict>>

\* the iterator is exhausted: the summary line and main's return
MainFinish ==
    /\ pc = "iterating"
    /\ pending = {}
    /\ pc' = "exited"
    /\ exitCode' = ExitStatus(ok, total)
    /\ UNCHANGED <<fs, cmdline, dt, recursive, dry_run, make_backup, pending, total, ok,
                   skipped, stderr, log, enumerated, codecCalls, backedUp, fs0, madeNow,
                   madeBefore, runs, faults, probe, verdict>>

Next == Invoke \/ MainStart \/ ProcessEntry \/ MainFinish

Spec == Init /\ [][Next]_vars

(***************************************************************************)
(* The validator on its own.                                               *)
(***************************************************************************)
InitValidator ==
    /\ probe \in Probes
    /\ verdict = "unset"
    /\ fs = [p \in {} |-> <<>>]
    /\ pc = "validator"
    /\ cmdline = <<>>
    /\ dt = <<>>
    /\ recursive = FALSE
    /\ dry_run = FALSE
    /\ make_backup = TRUE
    /\ pending = {}
    /\ total = 0
    /\ ok = 0
    /\ skipped = 0
    /\ exitCode = -1
    /\ stderr = ""
    /\ log = NoLog
    /\ enumerated = {}
    /\ codecCalls = {}
    /\ backedUp = {}
    /\ fs0 = fs
    /\ madeNow = {}
    /\ madeBefore = {}
    /\ runs = 0
    /\ faults = 0

\* IsValidExifDateTime(probe)
CheckProbe ==
    /\ pc = "validator"
    /\ verdict = "unset"
    /\ verdict' = IF IsValidExifDateTime(probe) THEN "accept" ELSE "reject"
    /\ UNCHANGED <<fs, pc, cmdline, dt, recursive, dry_run, make_backup, pending, total,
                   ok, skipped, exitCode, stderr, log, enumerated, codecCalls, backedUp,
                   fs0, madeNow, madeBefore, runs, faults, probe>>

NextValidator == CheckProbe

SpecValidator == InitValidator /\ [][NextValidator]_vars

(***************************************************************************)
(* One invocation with any command line of CommandLines.                   *)
(***************************************************************************)
InitArgs ==
    /\ fs \in InitialTrees
    /\ pc = "start"
    /\ cmdline \in CommandLines
    /\ dt = <<>>
    /\ recursive = FALSE
    /\ dry_run = FALSE
    /\ make_backup = TRUE
    /\ pending = {}
    /\ total = 0
    /\ ok = 0
    /\ skipped = 0
    /\ exitCode = -1
    /\ stderr = ""
    /\ log = NoLog
    /\ enumerated = {}
    /\ codecCalls = {}
    /\ backedUp = {}
    /\ fs0 = fs
    /\ madeNow = {}
    /\ madeBefore = {}
    /\ runs = 1
    /\ faults = 0
    /\ probe = <<>>
    /\ verdict = "unset"

NextArgs == MainStart \/ ProcessEntry \/ MainFinish

SpecArgs == InitArgs /\ [][NextArgs]_vars

(***************************************************************************)
(* Vocabulary of the properties.                                           *)
(***************************************************************************)
\* traversal has started in this run (validation passed)
Running == pc = "iterating" \/ (pc = "exited" /\ exitCode # 2)
\* the run went through the traversal and returned
Finished == pc = "exited" /\ exitCode # 2

\* "jpeg", and a name whose last extension is .jpg or .jpeg in any letter case
ExtJpeg == <<106, 112, 101, 103>>
JpegNamed(p) == p[3] # <<>> /\ ToLower(p[3][Len(p[3])]) \in {ExtJpg, ExtJpeg}
\* a name that ends in .bak
BakNamed(p) == p[3] # <<>> /\ p[3][Len(p[3])] = ExtBak

\* the regular files of the traversal in tree `files`
Reached(files, rec) == {p \in DOMAIN files : p[1] = "root" \/ rec}
\* the candidate files of the run: those of the traversal that pass the type filter
CandidatesAtStart == {p \in Reached(fs0, recursive) : JpegNamed(p)}

TerminalStates == {"DryRunReported", "BackupFailed", "MutateFailed", "Succeeded"}
FailedStates == {"BackupFailed", "MutateFailed"}
AlreadyExists == [state |-> "BackupFailed", cause |-> "backup already exists"]

\* the 19-character pattern DDDD:DD:DD DD:DD:DD
MatchesPattern(s) ==
    /\ Len(s) = 19
    /\ \A i \in 1..19 :
         IF i \in {5, 8, 14, 17} THEN s[i] = 58
         ELSE IF i = 11 THEN s[i] = 32
         ELSE s[i] \in 48..57

(***************************************************************************)
(* C1.  Once a backup path <file>.bak exists, no step of any run changes   *)
(* or removes its content, whatever the flags of the run.                  *)
(***************************************************************************)
C1_BackupNeverOverwritten ==
    [][\A p \in DOMAIN fs : BakNamed(p) => (p \in DOMAIN fs' /\ fs'[p] = fs[p])]_vars

\* a later run with backups enabled met a file whose backup an earlier run made
C1_Witness ==
    /\ Finished /\ make_backup /\ ~dry_run
    /\ FileA \in madeBefore /\ FileA \in DOMAIN log
    /\ fs[BackupPath(FileA)] = ImageA

(***************************************************************************)
(* C2.  In a run with backups enabled and not in dry-run, a candidate file *)
(* whose backup path existed when the run started is reported failed, does *)
(* not count toward succeeded, is never handed to the codec and keeps its  *)
(* content.                                                                *)
(***************************************************************************)
C2_ExistingBackupStopsFile ==
    (Running /\ make_backup /\ ~dry_run) =>
        LET held == {p \in CandidatesAtStart : BackupPath(p) \in DOMAIN fs0} IN
        /\ \A p \in held :
            /\ p \notin codecCalls
            /\ fs[p] = fs0[p]
            /\ p \in DOMAIN log => log[p] = <<AlreadyExists>>
            /\ Finished => p \in DOMAIN log
        /\ ok + Cardinality(held \cap DOMAIN log) <= total

\* a.jpg.bak was there, a.jpg failed and the other file succeeded
C2_Witness ==
    /\ Finished /\ make_backup /\ ~dry_run
    /\ FileA \in DOMAIN fs0 /\ BackupPath(FileA) \in DOMAIN fs0
    /\ total = 2 /\ ok = 1 /\ exitCode = 1

(***************************************************************************)
(* C3.  In a dry run that passed validation the files on disk stay as they *)
(* were when the run started, no copy and no codec call is made, every     *)
(* file counted in total is reported DryRunReported and counted in ok, and *)
(* the run ends with every candidate reported and exit status 0.           *)
(***************************************************************************)
C3_DryRunTouchesNothing ==
    (Running /\ dry_run) =>
        /\ fs = fs0
        /\ codecCalls = {} /\ backedUp = {} /\ madeNow = {}
        /\ ok = total
        /\ total = Cardinality(DOMAIN log)
        /\ \A p \in DOMAIN log : log[p] = <<[state |-> "DryRunReported", cause |-> ""]>>
        /\ Finished => (exitCode = 0 /\ DOMAIN log = CandidatesAtStart)

\* a dry run with backups enabled over a tree with an unreadable c.jpg and an
\* a.jpg.bak already there
C3_Witness ==
    /\ Finished /\ dry_run /\ make_backup
    /\ total = 2 /\ exitCode = 0
    /\ FileC \in DOMAIN log /\ fs[FileC] = Junk
    /\ BackupPath(FileA) \in DOMAIN fs

(***************************************************************************)
(* C4.  In a run that passed validation every candidate file is attempted  *)
(* at most once, each attempt ends in one terminal state, only candidates  *)
(* are attempted, and when the run returns every candidate has been        *)
(* attempted, whatever happened to the files before it and whether or not  *)
(* the iterator yielded the backup files the run created.                  *)
(***************************************************************************)
C4_EveryCandidateOnce ==
    Running =>
        /\ DOMAIN log \subseteq CandidatesAtStart
        /\ \A p \in DOMAIN log : Len(log[p]) = 1 /\ log[p][1].state \in TerminalStates
        /\ total = Cardinality(DOMAIN log)
        /\ Finished => DOMAIN log = CandidatesAtStart

\* a file failed, another then succeeded, and a backup file made by the run
\* was yielded by the iterator
C4_Witness ==
    /\ Finished /\ total = 2 /\ ok = 1
    /\ \E p \in DOMAIN log : log[p][1].state \in FailedStates
    /\ \E q \in enumerated : q \notin DOMAIN fs0

(***************************************************************************)
(* C5.  A non-recursive run over a directory that held N jpeg-type and M   *)
(* other regular files when it started ends with total = N and             *)
(* skipped = M.                                                            *)
(***************************************************************************)
C5_CountsMatchDirectory ==
    (Finished /\ ~recursive) =>
        /\ total = Cardinality({p \in Reached(fs0, FALSE) : JpegNamed(p)})
        /\ skipped = Cardinality({p \in Reached(fs0, FALSE) : ~JpegNamed(p)})

(***************************************************************************)
(* C6.  ok never exceeds total; a run that passed validation returns 0     *)
(* exactly when no candidate ended BackupFailed or MutateFailed, which is  *)
(* exactly when ok = total, and returns 1 otherwise.                       *)
(***************************************************************************)
C6_ExitStatus ==
    /\ ok <= total
    /\ Finished =>
        LET failed == {p \in DOMAIN log : \E i \in 1..Len(log[p]) :
                                            log[p][i].state \in FailedStates} IN
        /\ exitCode \in {0, 1}
        /\ exitCode = 0 <=> failed = {}
        /\ exitCode = 0 <=> ok = total
        /\ exitCode = 1 <=> ok < total

\* one file failed and one succeeded: status 1
C6_Witness ==
    /\ Finished /\ exitCode = 1 /\ ok = 1 /\ total = 2

(***************************************************************************)
(* C7.  A command line with fewer than two positional arguments, an        *)
(* unknown flag, a malformed timestamp or a root that is missing or not a  *)
(* directory makes main return 2 in the step that parses it: nothing is    *)
(* enumerated, no file is created or changed and no codec call is made.    *)
(***************************************************************************)
InvalidCommandLine(c) ==
    \/ Len(c) < 2
    \/ \E i \in 3..Len(c) : c[i] \notin {"--recursive", "--dry-run", "--no-backup"}
    \/ ~MatchesPattern(c[2])
    \/ c[1] \in {"nowhere", "photo.jpg"}

C7_ValidationAbortsFirst ==
    [][(pc = "start" /\ InvalidCommandLine(cmdline)) =>
        /\ pc' = "exited" /\ exitCode' = 2
        /\ fs' = fs
        /\ pending' = {} /\ enumerated' = {}
        /\ log' = NoLog /\ codecCalls' = {} /\ backedUp' = {} /\ madeNow' = {}
        /\ total' = 0 /\ ok' = 0 /\ skipped' = 0]_vars

\* a malformed timestamp given together with --dry-run
C7_Witness ==
    /\ pc = "exited" /\ exitCode = 2
    /\ stderr = "Invalid datetime" /\ dry_run
    /\ FileA \in DOMAIN fs

(***************************************************************************)
(* C8.  The validator accepts a string exactly when it has 19 characters,  *)
(* ':' at indices 4, 7, 13, 16, ' ' at index 10 and a decimal digit at     *)
(* every other index; month 13 is accepted.                                *)
(***************************************************************************)
C8_ValidatorIsThePattern ==
    verdict # "unset" => (verdict = "accept" <=> MatchesPattern(probe))

\* "2026:13:25 18:30:00" is accepted
C8_Witness == verdict = "accept" /\ probe = StampMonth13

(***************************************************************************)
(* C9 as stated.  A file whose backup path an earlier run created and that *)
(* a later run processes: with backups enabled the later run reports it    *)
(* failed with "backup already exists" and does not mutate it; with        *)
(* --no-backup the later run hands it to the codec.                        *)
(***************************************************************************)
C9_SecondRunAsStated ==
    Running =>
        \A f \in madeBefore \cap DOMAIN log :
            IF make_backup
            THEN log[f] = <<AlreadyExists>> /\ f \notin codecCalls /\ fs[f] = fs0[f]
            ELSE f \in codecCalls /\ log[f][1].state \in {"Succeeded", "MutateFailed"}

(***************************************************************************)
(* C9 amended.  The same, for a later run that is not a dry run.           *)
(***************************************************************************)
C9_SecondRunNotDry ==
    (Running /\ ~dry_run) =>
        \A f \in madeBefore \cap DOMAIN log :
            IF make_backup
            THEN log[f] = <<AlreadyExists>> /\ f \notin codecCalls /\ fs[f] = fs0[f]
            ELSE f \in codecCalls /\ log[f][1].state \in {"Succeeded", "MutateFailed"}

\* the earlier run's copy of a.jpg stopped part-way and left a one-block
\* a.jpg.bak; the later run, backups enabled, has processed a.jpg
C9_Witness ==
    /\ Running /\ ~dry_run /\ make_backup
    /\ FileA \in madeBefore /\ FileA \in DOMAIN log
    /\ Len(fs[BackupPath(FileA)]) = 1

(***************************************************************************)
(* C10.  In a run with backups enabled and not in dry-run the codec is     *)
(* invoked on a file only after CopyFileBinary returned true for it in     *)
(* this run, a file reported BackupFailed is neither handed to the codec   *)
(* nor counted in ok, and a file whose content differs from what it was    *)
(* when the run started has a backup path holding that earlier content.    *)
(***************************************************************************)
C10_BackupBeforeMutation ==
    (Running /\ make_backup /\ ~dry_run) =>
        /\ codecCalls \subseteq backedUp
        /\ \A p \in DOMAIN log :
             log[p][1].state = "BackupFailed" => p \notin codecCalls
        /\ ok <= Cardinality(codecCalls)
        /\ \A p \in DOMAIN fs0 :
             fs[p] # fs0[p] =>
                /\ BackupPath(p) \in DOMAIN fs
                /\ fs[BackupPath(p)] = fs0[p]

====
